---- MODULE Spec2Model ----
(***************************************************************************)
(* A model of the mcumgr-client host library: the SMP sequence discipline   *)
(* (transport.rs), the serial wire codec (transport_serial.rs), the BLE     *)
(* transceive (transport_ble.rs), the image operations and the upload       *)
(* pipeline (image.rs) and reset (default.rs).                              *)
(*                                                                          *)
(* Conventions.  A byte is a number in 0..255, a buffer a sequence of       *)
(* bytes.  A usize that has wrapped below zero in a release build is        *)
(* written as the negative number v that stands for 2^64 + v.               *)
(***************************************************************************)
EXTENDS Integers, Sequences, FiniteSets, TLC

None == "none"

\* ------------------------------------------------------------------------
\* Bit arithmetic on naturals
\* ------------------------------------------------------------------------
RECURSIVE Xor(_, _)
Xor(a, b) ==
    IF a = 0 THEN b
    ELSE IF b = 0 THEN a
    ELSE (((a % 2) + (b % 2)) % 2) + 2 * Xor(a \div 2, b \div 2)

RECURSIVE Pow2(_)
Pow2(n) == IF n = 0 THEN 1 ELSE 2 * Pow2(n - 1)

\* ------------------------------------------------------------------------
\* CRC16/XMODEM (crc16::State::<XMODEM>::calculate): polynomial 0x1021,
\* initial value 0, no reflection, no final xor.
\* ------------------------------------------------------------------------
CrcPoly == 4129

RECURSIVE CrcShift(_, _)
CrcShift(c, n) ==
    IF n = 0 THEN c
    ELSE CrcShift(IF c >= 32768 THEN Xor((c * 2) % 65536, CrcPoly)
                                ELSE c * 2, n - 1)

\* the 256-entry table of the byte-wise algorithm
CrcTable == [b \in 0..255 |-> CrcShift(b * 256, 8)]

CrcUpdate(crc, byte) ==
    Xor((crc % 256) * 256, CrcTable[Xor(crc \div 256, byte)])

RECURSIVE CrcFrom(_, _, _)
CrcFrom(crc, s, i) ==
    IF i > Len(s) THEN crc ELSE CrcFrom(CrcUpdate(crc, s[i]), s, i + 1)

Crc16(s) == CrcFrom(0, s, 1)

\* byteorder: write_u16::<BigEndian>, BigEndian::read_u16
BeU16(v) == << (v % 65536) \div 256, v % 256 >>
ReadU16(s) == s[1] * 256 + s[2]

\* ------------------------------------------------------------------------
\* base64, standard alphabet, padded (base64::engine::general_purpose::STANDARD)
\* ------------------------------------------------------------------------
PadChar == 61

B64Char(i) ==
    IF i < 26 THEN 65 + i
    ELSE IF i < 52 THEN 71 + i
    ELSE IF i < 62 THEN i - 4
    ELSE IF i = 62 THEN 43 ELSE 47

\* the 6-bit value of an alphabet character, -1 for any other byte
B64Index(c) ==
    IF c >= 65 /\ c <= 90 THEN c - 65
    ELSE IF c >= 97 /\ c <= 122 THEN c - 71
    ELSE IF c >= 48 /\ c <= 57 THEN c + 4
    ELSE IF c = 43 THEN 62
    ELSE IF c = 47 THEN 63 ELSE -1

RECURSIVE Base64EncodeFrom(_, _)
Base64EncodeFrom(s, i) ==
    LET n == Len(s) - i + 1 IN
    IF n <= 0 THEN << >>
    ELSE IF n = 1 THEN
        << B64Char(s[i] \div 4), B64Char((s[i] % 4) * 16), PadChar, PadChar >>
    ELSE IF n = 2 THEN
        << B64Char(s[i] \div 4),
           B64Char((s[i] % 4) * 16 + s[i + 1] \div 16),
           B64Char((s[i + 1] % 16) * 4), PadChar >>
    ELSE
        << B64Char(s[i] \div 4),
           B64Char((s[i] % 4) * 16 + s[i + 1] \div 16),
           B64Char((s[i + 1] % 16) * 4 + s[i + 2] \div 64),
           B64Char(s[i + 2] % 64) >> \o Base64EncodeFrom(s, i + 3)

Base64Encode(s) == Base64EncodeFrom(s, 1)

\* One group of four characters; last tells whether padding may appear.
\* The result is [ok, bytes]; padding must be canonical and the unused
\* low bits of the last symbol zero.
B64Quad(a, b, c, d, last) ==
    LET ia == B64Index(a)
        ib == B64Index(b)
        ic == B64Index(c)
        id == B64Index(d)
    IN  IF ia < 0 \/ ib < 0 THEN [ok |-> FALSE, bytes |-> << >>]
        ELSE IF last /\ c = PadChar /\ d = PadChar THEN
            [ok |-> ib % 16 = 0, bytes |-> << ia * 4 + ib \div 16 >>]
        ELSE IF ic < 0 THEN [ok |-> FALSE, bytes |-> << >>]
        ELSE IF last /\ d = PadChar THEN
            [ok |-> ic % 4 = 0,
             bytes |-> << ia * 4 + ib \div 16, (ib % 16) * 16 + ic \div 4 >>]
        ELSE IF id < 0 THEN [ok |-> FALSE, bytes |-> << >>]
        ELSE [ok |-> TRUE,
              bytes |-> << ia * 4 + ib \div 16, (ib % 16) * 16 + ic \div 4,
                           (ic % 4) * 64 + id >>]

RECURSIVE Base64DecodeFrom(_, _)
Base64DecodeFrom(s, i) ==
    IF i > Len(s) THEN [ok |-> TRUE, bytes |-> << >>]
    ELSE LET q == B64Quad(s[i], s[i + 1], s[i + 2], s[i + 3], i + 3 = Len(s))
         IN  IF ~q.ok THEN q
             ELSE LET r == Base64DecodeFrom(s, i + 4)
                  IN  [ok |-> r.ok, bytes |-> q.bytes \o r.bytes]

Base64Decode(s) ==
    IF Len(s) % 4 # 0 THEN [ok |-> FALSE, bytes |-> << >>]
    ELSE Base64DecodeFrom(s, 1)

\* ------------------------------------------------------------------------
\* Serial frame assembly: encode_request
\* ------------------------------------------------------------------------
Newline == 10
StartMarker == << 6, 9 >>
ContMarker == << 4, 20 >>
MarkerOverhead == 4

Min(a, b) == IF a < b THEN a ELSE b

\* len_be16(|req| + 2) || req || crc_be16
\* a faulty variant: the length prefix forgets the two CRC bytes
Mut_Framed(req) == BeU16(Len(req)) \o req \o BeU16(Crc16(req))

Framed(req) == BeU16(Len(req) + 2) \o req \o BeU16(Crc16(req))

\* a faulty variant: every line gets the start marker
RECURSIVE Mut_EncodeLines(_, _, _)
Mut_EncodeLines(linelength, base64_data, written) ==
    IF written >= Len(base64_data) THEN << >>
    ELSE LET write_len == IF linelength - 4 < Len(base64_data) - written
                          THEN linelength - 4 ELSE Len(base64_data) - written
         IN  << 6, 9 >>
             \o SubSeq(base64_data, written + 1, written + write_len)
             \o << 10 >>
             \o Mut_EncodeLines(linelength, base64_data, written + write_len)

\* the while loop that cuts the base64 text into lines
RECURSIVE EncodeLines(_, _, _)
EncodeLines(linelength, base64_data, written) ==
    IF written >= Len(base64_data) THEN << >>
    ELSE LET write_len == Min(linelength - MarkerOverhead,
                              Len(base64_data) - written)
         IN  (IF written = 0 THEN StartMarker ELSE ContMarker)
             \o SubSeq(base64_data, written + 1, written + write_len)
             \o << Newline >>
             \o EncodeLines(linelength, base64_data, written + write_len)

encode_request(linelength, req) ==
    EncodeLines(linelength, Base64Encode(Framed(req)), 0)

\* ------------------------------------------------------------------------
\* Serial frame reception: the read loop of serial_transceive, run on the
\* bytes the port delivers.  A read past the last delivered byte is the
\* port's timeout.
\* ------------------------------------------------------------------------
RecvOk == "ok"
ErrRead == "read error"
ErrTimeout == "Operation timed out"
ErrBase64 == "base64 decode error"
ErrLength == "wrong chunk length"
ErrChecksum == "wrong checksum"
Panic == "panic"

Fail(tag) == [tag |-> tag, data |-> << >>]

\* index of the first newline at or after position from, 0 when there is none
RECURSIVE NextNewline(_, _)
NextNewline(stream, from) ==
    IF from > Len(stream) THEN 0
    ELSE IF stream[from] = Newline THEN from
    ELSE NextNewline(stream, from + 1)

\* expect_byte twice: "" when both marker bytes are read as expected
ExpectMarker(stream, pos, marker) ==
    IF pos > Len(stream) THEN ErrTimeout
    ELSE IF stream[pos] # marker[1] THEN ErrRead
    ELSE IF pos + 1 > Len(stream) THEN ErrTimeout
    ELSE IF stream[pos + 1] # marker[2] THEN ErrRead
    ELSE ""

\* after the read loop: length check, CRC check, inner frame
\* a faulty variant: the checksum is read but never compared
Mut_RecvFinish(decoded) ==
    IF ReadU16(decoded) # Len(decoded) - 2 THEN Fail(ErrLength)
    ELSE IF Len(decoded) < 4 THEN Fail(Panic)
    ELSE [tag |-> RecvOk, data |-> SubSeq(decoded, 3, Len(decoded) - 2)]

RecvFinish(decoded) ==
    IF ReadU16(decoded) # Len(decoded) - 2 THEN Fail(ErrLength)
    ELSE IF Len(decoded) < 4 THEN Fail(Panic)
    ELSE LET data == SubSeq(decoded, 3, Len(decoded) - 2)
             read_checksum == ReadU16(SubSeq(decoded, Len(decoded) - 1,
                                             Len(decoded)))
         IN  IF read_checksum # Crc16(data) THEN Fail(ErrChecksum)
             ELSE [tag |-> RecvOk, data |-> data]

RECURSIVE RecvLoop(_, _, _, _)
RecvLoop(stream, pos, result, expected_len) ==
    LET m == ExpectMarker(stream, pos,
                          IF Len(result) = 0 THEN StartMarker ELSE ContMarker)
        nl == NextNewline(stream, pos + 2)
    IN  IF m # "" THEN Fail(m)
        ELSE IF nl = 0 THEN Fail(ErrTimeout)
        ELSE LET result2 == result \o SubSeq(stream, pos + 2, nl - 1)
                 dec == Base64Decode(result2)
             IN  IF ~dec.ok THEN Fail(ErrBase64)
                 ELSE IF Len(dec.bytes) < 2 THEN Fail(Panic)
                 ELSE LET len == ReadU16(dec.bytes)
                          expected2 == IF expected_len = 0 THEN len
                                       ELSE expected_len
                      IN  IF Len(dec.bytes) - 2 >= expected2
                          THEN RecvFinish(dec.bytes)
                          ELSE RecvLoop(stream, nl + 1, result2, expected2)

serial_receive(stream) == RecvLoop(stream, 1, << >>, 0)

\* ------------------------------------------------------------------------
\* The serial link as a state machine: a frame is encoded, the line may
\* flip one bit of it, and the reception procedure reads it.
\* ------------------------------------------------------------------------
VARIABLES c_pc, c_req, c_ll, c_wire, c_flip, c_res

cvars == << c_pc, c_req, c_ll, c_wire, c_flip, c_res >>

MaxReqLen == 18
LineLengths == {4, 12, 32, 33, 128}

\* request frames: all-zero frames and frames of varying bytes
ReqByte(pattern, i) == IF pattern = 0 THEN 0 ELSE (37 * i + 11 * pattern) % 256
Requests ==
    { [i \in 1..n |-> ReqByte(p, i)] : n \in 0..MaxReqLen, p \in {0, 1} }

CodecIdle ==
    /\ c_pc = "off" /\ c_req = << >> /\ c_ll = 0
    /\ c_wire = << >> /\ c_flip = << >> /\ c_res = Fail(None)

CodecInit ==
    /\ c_pc = "start"
    /\ c_req \in Requests
    /\ c_ll \in LineLengths
    /\ c_wire = << >>
    /\ c_flip = << >>
    /\ c_res = Fail(None)

\* with linelength = 4 a line has room for no text: write_len is 0 on every
\* pass, written never reaches totlen and the loop does not end
CodecEncode ==
    /\ c_pc = "start"
    /\ IF c_ll - MarkerOverhead = 0
         THEN c_pc' = "looping" /\ UNCHANGED c_wire
         ELSE c_pc' = "onwire" /\ c_wire' = encode_request(c_ll, c_req)
    /\ UNCHANGED << c_req, c_ll, c_flip, c_res >>

FlipBit(byte, bit) == Xor(byte, Pow2(bit))

CodecTamper ==
    /\ c_pc = "onwire"
    /\ c_flip = << >>
    /\ \E pos \in 1..Len(c_wire), bit \in 0..7 :
         /\ c_wire' = [c_wire EXCEPT ![pos] = FlipBit(c_wire[pos], bit)]
         /\ c_flip' = << pos, bit >>
    /\ UNCHANGED << c_pc, c_req, c_ll, c_res >>

\* the device answers with a stream of its own: one line, with or without
\* its newline, carrying the base64 of a short block of bytes
MaxBlock == 4
DeviceBytes == {0, 1, 2}
DeviceBlocks ==
    UNION { [1..n -> DeviceBytes] : n \in 0..MaxBlock }
DeviceStreams ==
    { StartMarker \o Base64Encode(b) \o << Newline >> : b \in DeviceBlocks }
    \cup { StartMarker \o Base64Encode(b) : b \in DeviceBlocks }

CodecDevice ==
    /\ c_pc = "start"
    /\ c_wire' \in DeviceStreams
    /\ c_pc' = "response"
    /\ UNCHANGED << c_req, c_ll, c_flip, c_res >>

CodecReceive ==
    /\ c_pc \in {"onwire", "response"}
    /\ c_res' = serial_receive(c_wire)
    /\ c_pc' = (IF c_pc = "onwire" THEN "received" ELSE "answered")
    /\ UNCHANGED << c_req, c_ll, c_wire, c_flip >>

CodecNext == CodecEncode \/ CodecTamper \/ CodecDevice \/ CodecReceive

\* ------------------------------------------------------------------------
\* SMP headers and envelope validation
\* ------------------------------------------------------------------------
NMP_HDR_LEN == 8

Read == "Read"
ReadRsp == "ReadRsp"
Write == "Write"
WriteRsp == "WriteRsp"
NmpOps == {Read, ReadRsp, Write, WriteRsp}
GroupDefault == "Default"
GroupImage == "Image"
NmpGroups == {GroupDefault, GroupImage}

Hdr(op_, group_, seq_) == [op |-> op_, group |-> group_, seq |-> seq_]

\* u8::wrapping_add(1)
WrappingInc(seq) == (seq + 1) % 256

\* a faulty variant: the group of the response is not looked at
Mut_check_answer(request_header, response_header) ==
    /\ response_header.seq = request_header.seq
    /\ \/ (request_header.op = Read /\ response_header.op = ReadRsp)
       \/ (request_header.op = Write /\ response_header.op = WriteRsp)

check_answer(request_header, response_header) ==
    IF response_header.seq # request_header.seq THEN FALSE
    ELSE IF request_header.op \notin {Read, Write} THEN FALSE
    ELSE LET expected_op_type ==
                 IF request_header.op = Read THEN ReadRsp ELSE WriteRsp
         IN  ~(\/ response_header.op # expected_op_type
               \/ response_header.group # request_header.group)

\* ------------------------------------------------------------------------
\* Reply bodies.  A value stored under a key of the CBOR map is absent, not
\* an integer, or an integer.  The rc integer is an i128 written as the
\* pair << hi, lo >> standing for hi * 2^32 + lo; the off integer is
\* written as itself.
\* ------------------------------------------------------------------------
Absent == "absent"
NotInteger == "text"
Integer == "int"

RcAbsent == [t |-> Absent, v |-> << 0, 0 >>]
RcText == [t |-> NotInteger, v |-> << 0, 0 >>]
RcInt(hi, lo) == [t |-> Integer, v |-> << hi, lo >>]
OffAbsent == [t |-> Absent, v |-> 0]
OffText == [t |-> NotInteger, v |-> 0]
OffInt(n) == [t |-> Integer, v |-> n]

\* get_rc: Some(rc as u32) for an integer rc, None otherwise
NoRc == -1
\* a faulty variant: the rc of the body is never found
Mut_get_rc(body) == NoRc

get_rc(body) == IF body.rc.t = Integer THEN body.rc.v[2] ELSE NoRc

\* the comparison *rc != 0 on the i128 itself (upload, reset)
RcNonZero(body) == body.rc.t = Integer /\ body.rc.v # << 0, 0 >>

\* ------------------------------------------------------------------------
\* Results of an operation
\* ------------------------------------------------------------------------
Ok == "ok"
ErrIo == "io error"
ErrParse == "parse error"
ErrTooLargeChunk == "too large chunk"
ErrWrongAnswerTypes == "wrong answer types"
ErrWrongSequence == "wrong sequence number"
ErrWrongResponseTypes == "wrong response types"
ErrDevice == "error from device"
ErrMtuTooSmall == "MTU too small"
ErrNoProgress == "wrong offset received"
ErrUnexpectedAnswer == "unexpected answer from device"

Res(kind) == [kind |-> kind, rc |-> << 0, 0 >>]
DeviceError(rc) == [kind |-> ErrDevice, rc |-> rc]

\* ------------------------------------------------------------------------
\* Frame sizes
\* ------------------------------------------------------------------------
CeilDiv(a, b) == (a + b - 1) \div b

\* the number of bytes encode_request produces for a frame of frame_len bytes
EncodedLen(linelength, frame_len) ==
    LET totlen == 4 * CeilDiv(frame_len + 4, 3)
    IN  totlen + 3 * CeilDiv(totlen, linelength - MarkerOverhead)

\* CBOR sizes of the request bodies (major type byte plus argument)
CborHead(n) == IF n < 24 THEN 1 ELSE IF n < 256 THEN 2 ELSE IF n < 65536 THEN 3 ELSE 5
CborText(n) == CborHead(n) + n
Sha256Len == 32

\* ImageUploadReq { image, off, len?, sha?, data } with off = at and |data| = n
UploadBodyLen(at, n, total, slot) ==
    1 + CborText(5) + CborHead(slot) + CborText(3) + CborHead(at)
      + CborText(4) + CborHead(n) + n
      + (IF at = 0
         THEN CborText(3) + CborHead(total) + CborText(3) + CborHead(Sha256Len) + Sha256Len
         ELSE 0)

\* ImageEraseReq { slot }, ImageStateReq { hash }, the empty map, the empty body
EraseBodyLen == 1 + CborText(4) + 1
TestBodyLen == 1 + CborText(4) + CborHead(Sha256Len) + Sha256Len
ListBodyLen == 1
ResetBodyLen == 0

\* ------------------------------------------------------------------------
\* MTU pre-checks of the two transports: 0 when the frame is accepted,
\* otherwise the reduce value carried by TooLargeChunk
\* ------------------------------------------------------------------------
SerialMtuCheck(mtu, linelength, frame_len) ==
    LET n == EncodedLen(linelength, frame_len)
    IN  IF n > mtu THEN ((n - mtu) * 3) \div 4 + 3 ELSE 0

\* SerialTransport::mtu(): self.mtu * 3 / 4
SerialMtu(mtu) == (mtu * 3) \div 4

BleMtuCheck(mtu, frame_len) ==
    IF frame_len > mtu THEN frame_len - mtu ELSE 0

\* a faulty variant: try_length shrinks by reduce itself
Mut_ShrinkBy(reduce) == reduce

\* the amount upload takes off try_length after TooLargeChunk(reduce)
ShrinkBy(reduce) == (reduce * 3) \div 4 + 3

\* ------------------------------------------------------------------------
\* The client as a state machine.  One session runs one operation on one
\* transport: upload, erase, test or list on the serial transport behind
\* SmpTransport, or reset (which borrows its transport and may be called
\* again on it) on the serial or the BLE transport.
\* ------------------------------------------------------------------------
VARIABLES
    op,                 \* the operation of the session
    tr,                 \* "serial" (SmpTransport over SerialTransport) or "ble"
    specs,              \* SerialSpecs [mtu, linelength, nb_retry] and upload's slot
    data,               \* the bytes of the file to upload
    filename,           \* the path of the file to upload, as character codes
    slot,               \* upload's local 'slot'
    seq0,               \* the random initial value of seq_id
    seq_id,             \* the transport's sequence counter
    pc,                 \* begin, chunk, build, await, done
    result,             \* what the operation returned
    off, off_start, try_length, nb_retry, sent_blocks, confirmed_blocks,
    wire,               \* the request frame last handed to the wire
    rsp,                \* the reply last parsed by transceive
    wire_count,         \* frames handed to the wire so far
    returned,           \* transceive calls that returned, TooLargeChunk apart
    rej_seq,            \* seq of a request rejected since the last return, or -1
    last,               \* the step taken last
    dev_off, dev_mem,   \* the device: next expected offset, bytes written
    phase, lost, ref    \* the retry experiment: run, loss of the chunk, baseline

\* read_response of the BLE transport, on its own
VARIABLES
    b_pc,               \* idle, reading, returned
    b_buf,              \* response: the bytes accumulated so far
    b_res               \* what read_response returned

bvars == << b_pc, b_buf, b_res >>

cfgvars == << op, tr, specs, data, filename, seq0 >>
upvars == << off, off_start, try_length, nb_retry, sent_blocks, confirmed_blocks >>
devvars == << dev_off, dev_mem >>
expvars == << phase, ref >>
svars == << cfgvars, slot, seq_id, pc, result, upvars, wire, rsp, wire_count,
            returned, rej_seq, last, devvars, expvars, lost >>
vars == << svars, cvars, bvars >>

\* bounds of the model
MaxFile == 7
MaxSends == 4

Mtus == {20, 106, 110, 200}
BleMtus == {4, 200}
SeqStarts == {0, 254}
Retries == {0, 1}
UploadLineLengths == {128}
Slots == {0}

FileByte(i) == (i * 29 + 5) % 256
File(n) == [i \in 1..n |-> FileByte(i)]

\* file names as character codes: "slot1", "slot3" and sample paths
Slot1Pattern == << 115, 108, 111, 116, 49 >>
Slot3Pattern == << 115, 108, 111, 116, 51 >>
PlainName == << 97, 46, 98 >>                                  \* a.b
FileNames ==
    { PlainName,
      << 115, 108, 111, 116, 49 >>,                            \* slot1
      << 83, 76, 79, 84, 51, 46, 98 >>,                        \* SLOT3.b
      << 83, 108, 79, 116, 49, 47, 97 >>,                      \* SlOt1/a
      << 115, 108, 111, 116, 50 >>,                            \* slot2
      << 115, 108, 111, 116, 95, 51 >>,                        \* slot_3
      << 115, 108, 111, 116, 49, 115, 76, 111, 84, 51 >>,      \* slot1sLoT3
      << 115, 108, 111, 116, 51, 115, 108, 111, 116, 49 >> }   \* slot3slot1
GivenSlots == {0, 2}

Serial == "serial"
Ble == "ble"
Upload == "upload"
Erase == "erase"
Test == "test"
List == "list"
Reset == "reset"

NoWire ==
    [valid |-> FALSE, hdr |-> Hdr(Read, GroupDefault, 0), off |-> 0,
     has_len |-> FALSE, len |-> 0, has_sha |-> FALSE, image |-> 0,
     data |-> << >>, frame_len |-> 0]
NoRsp ==
    [valid |-> FALSE, hdr |-> Hdr(Read, GroupDefault, 0), rc |-> RcAbsent,
     off |-> OffAbsent, images |-> FALSE, at |-> 0]
NoRef == [result |-> Res(None), off |-> 0, mem |-> << >>]

\* the request header and body length of the operations other than upload
ReqOp(o) == IF o = List THEN Read ELSE Write
ReqGroup(o) == IF o = Reset THEN GroupDefault ELSE GroupImage
ReqBodyLen(o) ==
    IF o = Erase THEN EraseBodyLen
    ELSE IF o = Test THEN TestBodyLen
    ELSE IF o = List THEN ListBodyLen
    ELSE ResetBodyLen

\* the state a session starts in, for a given configuration
Fresh(seq) ==
    /\ seq_id = seq
    /\ slot = specs.slot
    /\ pc = "begin"
    /\ result = Res(None)
    /\ off = 0 /\ off_start = 0 /\ try_length = 0 /\ nb_retry = 0
    /\ sent_blocks = 0 /\ confirmed_blocks = 0
    /\ wire = NoWire
    /\ rsp = NoRsp
    /\ wire_count = 0
    /\ returned = 0
    /\ rej_seq = -1
    /\ last = "init"
    /\ dev_off = 0 /\ dev_mem = << >>
    /\ lost = FALSE

ClientInit ==
    /\ filename = PlainName
    /\ \/ /\ op = Upload /\ tr = Serial
          /\ data \in { File(n) : n \in 0..MaxFile }
          /\ specs \in [mtu : Mtus, linelength : UploadLineLengths,
                      nb_retry : Retries, slot : Slots]
       \/ /\ op \in {Erase, Test, List, Reset} /\ tr = Serial
          /\ data = << >>
          /\ specs \in [mtu : Mtus, linelength : UploadLineLengths,
                      nb_retry : {0}, slot : Slots]
       \/ /\ op = Reset /\ tr = Ble
          /\ data = << >>
          /\ specs \in [mtu : BleMtus, linelength : {0}, nb_retry : {0}, slot : Slots]
    /\ seq0 \in SeqStarts
    /\ Fresh(seq0)
    /\ phase = "free" /\ ref = NoRef

\* ---- the sequence counter of SmpTransport::transceive ------------------
\* faulty variants: a rejected call consumes a sequence number, a returned
\* call does not
Mut_SeqAfterReject(seq) == WrappingInc(seq)
Mut_SeqAfterAttempt(seq) == seq

\* after a TooLargeChunk rejection
SeqAfterReject(seq) == seq
\* after any other return, error or success
SeqAfterAttempt(seq) == WrappingInc(seq)
\* BluetoothTransport::transceive leaves its seq_id alone
BleSeqAfter(seq) == seq

SeqAfterReturn == IF tr = Ble THEN BleSeqAfter(seq_id) ELSE SeqAfterAttempt(seq_id)

MtuCheck(frame_len) ==
    IF tr = Ble THEN BleMtuCheck(specs.mtu, frame_len)
    ELSE SerialMtuCheck(specs.mtu, specs.linelength, frame_len)

Finish(res) == pc' = "done" /\ result' = res

\* ------------------------------------------------------------------------
\* upload
\* ------------------------------------------------------------------------
\* the slot override: if the name contains "slot1" or "slot3", use this slot
ToLower(c) == IF c \in 65..90 THEN c + 32 ELSE c
to_lowercase(name) == [i \in 1..Len(name) |-> ToLower(name[i])]
contains(name, pattern) ==
    \E i \in 1..(Len(name) - Len(pattern) + 1) :
        SubSeq(name, i, i + Len(pattern) - 1) = pattern

\* a faulty variant: the first pattern found decides
Mut_ChosenSlot(name, given) ==
    IF contains(to_lowercase(name), to_lowercase(Slot1Pattern)) THEN 1
    ELSE IF contains(to_lowercase(name), to_lowercase(Slot3Pattern)) THEN 3
    ELSE given

ChosenSlot(name, given) ==
    LET filename_lowercase == to_lowercase(name)
        first == IF contains(filename_lowercase, to_lowercase(Slot1Pattern))
                 THEN 1 ELSE given
    IN  IF contains(filename_lowercase, to_lowercase(Slot3Pattern))
        THEN 3 ELSE first

\* let mut slot = ...; let mut off = 0; sent_blocks = 0; confirmed_blocks = 0
UploadBegin ==
    /\ pc = "begin" /\ op = Upload
    /\ slot' = ChosenSlot(filename, slot)
    /\ off' = 0 /\ sent_blocks' = 0 /\ confirmed_blocks' = 0
    /\ pc' = "chunk"
    /\ last' = "begin"
    /\ UNCHANGED << cfgvars, seq_id, result, off_start, try_length, nb_retry,
                    wire, rsp, wire_count, returned, rej_seq, devvars,
                    expvars, lost >>

\* the head of the outer loop
ChunkBegin ==
    /\ pc = "chunk"
    /\ nb_retry' = specs.nb_retry
    /\ off_start' = off
    /\ try_length' = specs.mtu
    /\ lost' = FALSE
    /\ pc' = "build"
    /\ last' = "chunk"
    /\ UNCHANGED << cfgvars, slot, seq_id, result, off, sent_blocks, confirmed_blocks,
                    wire, rsp, wire_count, returned, rej_seq, devvars, expvars >>

\* a faulty variant: the clamp leaves out the last byte of the file
Mut_ChunkLength(at, tl, total) ==
    IF at < 0 \/ at > total \/ tl < 0 THEN -1
    ELSE IF at + tl > total THEN (IF total > at THEN total - at - 1 ELSE 0)
    ELSE tl

\* if off + try_length > data.len() { try_length = data.len() - off }
\* data[off..off + try_length]: -1 when the subtraction or the slice panics.
\* A negative try_length is one that wrapped in a release build: the sum
\* wraps too, and is below off unless it stays above 2^64.
ChunkLength(at, tl, total) ==
    IF at < 0 \/ at > total THEN -1
    ELSE IF tl < 0 THEN (IF at + tl >= 0 THEN -1 ELSE total - at)
    ELSE IF at + tl > total THEN total - at
    ELSE tl

\* the fields of ImageUploadReq that depend on off
\* a faulty variant: every chunk carries the total length
Mut_HasLen(at) == TRUE

HasLen(at) == at = 0
HasSha(at) == at = 0

UploadRequest(at, n) ==
    [valid |-> TRUE,
     hdr |-> Hdr(Write, GroupImage, seq_id),
     off |-> at,
     has_len |-> HasLen(at),
     len |-> Len(data),
     has_sha |-> HasSha(at),
     image |-> slot,
     data |-> SubSeq(data, at + 1, at + n),
     frame_len |-> NMP_HDR_LEN + UploadBodyLen(at, n, Len(data), slot)]

\* the slice of the chunk panics
UploadBuildPanic ==
    /\ pc = "build" /\ op = Upload
    /\ ChunkLength(off, try_length, Len(data)) < 0
    /\ Finish(Res(Panic))
    /\ last' = "panic"
    /\ UNCHANGED << cfgvars, slot, seq_id, upvars, wire, rsp, wire_count, returned,
                    rej_seq, devvars, expvars, lost >>

\* the request is built and the transport rejects it: TooLargeChunk(reduce).
\* wrap tells whether the build wraps on overflow (release) or panics (debug).
UploadTooLarge(wrap) ==
    /\ pc = "build" /\ op = Upload
    /\ LET n == ChunkLength(off, try_length, Len(data))
           req == UploadRequest(off, n)
           reduce == MtuCheck(req.frame_len)
       IN  /\ n >= 0
           /\ reduce > 0
           /\ seq_id' = SeqAfterReject(seq_id)
           /\ rej_seq' = req.hdr.seq
           /\ IF reduce > n
              THEN /\ Finish(Res(ErrMtuTooSmall))
                   /\ try_length' = n
                   /\ sent_blocks' = sent_blocks + 1
                   /\ last' = "reject"
              ELSE IF ShrinkBy(reduce) > n /\ ~wrap
              THEN /\ Finish(Res(Panic))
                   /\ try_length' = n
                   /\ sent_blocks' = sent_blocks + 1
                   /\ last' = "reject"
              ELSE /\ try_length' = n - ShrinkBy(reduce)
                   /\ sent_blocks' = sent_blocks
                   /\ UNCHANGED << pc, result >>
                   /\ last' = "reject"
    /\ UNCHANGED << cfgvars, slot, off, off_start, nb_retry, confirmed_blocks, wire,
                    rsp, wire_count, returned, devvars, expvars, lost >>

\* the request is built and handed to the wire
UploadSend ==
    /\ pc = "build" /\ op = Upload
    /\ wire_count < MaxSends
    /\ LET n == ChunkLength(off, try_length, Len(data))
           req == UploadRequest(off, n)
       IN  /\ n >= 0
           /\ MtuCheck(req.frame_len) = 0
           /\ try_length' = n
           /\ wire' = req
    /\ sent_blocks' = sent_blocks + 1
    /\ wire_count' = wire_count + 1
    /\ pc' = "await"
    /\ last' = "send"
    /\ UNCHANGED << cfgvars, slot, seq_id, result, off, off_start, nb_retry,
                    confirmed_blocks, rsp, returned, rej_seq, devvars,
                    expvars, lost >>

\* if nb_retry == 0 { return Err(e) }
\* faulty variants: a timeout is never retried, a timeout is always retried
Mut_RetryAllowed(retries_remaining) == FALSE
Mut_RetryAlways(retries_remaining) == TRUE

RetryAllowed(retries_remaining) == retries_remaining # 0

\* a faulty variant: a retried attempt stays counted as a block sent
Mut_UploadOnTimeout ==
    /\ seq_id' = SeqAfterReturn
    /\ returned' = returned + 1
    /\ rej_seq' = -1
    /\ last' = "timeout"
    /\ IF ~RetryAllowed(nb_retry)
       THEN /\ Finish(Res(ErrTimeout))
            /\ UNCHANGED nb_retry
       ELSE /\ nb_retry' = nb_retry - 1
            /\ pc' = "build"
            /\ UNCHANGED result
    /\ UNCHANGED << cfgvars, slot, off, off_start, try_length, sent_blocks,
                    confirmed_blocks, wire, rsp, wire_count, expvars >>

\* what upload does with Err("Operation timed out")
UploadOnTimeout ==
    /\ seq_id' = SeqAfterReturn
    /\ returned' = returned + 1
    /\ rej_seq' = -1
    /\ last' = "timeout"
    /\ IF ~RetryAllowed(nb_retry)
       THEN /\ Finish(Res(ErrTimeout))
            /\ UNCHANGED << nb_retry, sent_blocks >>
       ELSE /\ nb_retry' = nb_retry - 1
            /\ sent_blocks' = sent_blocks - 1
            /\ pc' = "build"
            /\ UNCHANGED result
    /\ UNCHANGED << cfgvars, slot, off, off_start, try_length, confirmed_blocks,
                    wire, rsp, wire_count, expvars >>

\* the offset upload continues from after a reply carrying off = reply_off
\* a faulty variant: the client advances by what it sent
Mut_NextOff(cur, n, reply_off) == cur + n

NextOff(cur, n, reply_off) == reply_off

\* what upload does with a reply that transceive parsed
UploadOnReply(r) ==
    LET off1 == IF r.off.t = Integer THEN NextOff(off, try_length, r.off.v)
                ELSE off
    IN  /\ seq_id' = SeqAfterReturn
        /\ returned' = returned + 1
        /\ rej_seq' = -1
        /\ rsp' = [r EXCEPT !.valid = TRUE, !.at = off]
        /\ last' = "reply"
        /\ IF ~check_answer(wire.hdr, r.hdr)
           THEN /\ Finish(Res(ErrWrongAnswerTypes))
                /\ UNCHANGED << off, confirmed_blocks >>
           ELSE IF RcNonZero(r)
           THEN /\ Finish(DeviceError(r.rc.v))
                /\ off' = off1
                /\ UNCHANGED confirmed_blocks
           ELSE /\ off' = off1
                /\ confirmed_blocks' = confirmed_blocks + 1
                /\ IF off_start = off1 THEN Finish(Res(ErrNoProgress))
                   ELSE IF off1 = Len(data) THEN Finish(Res(Ok))
                   ELSE pc' = "chunk" /\ UNCHANGED result
        /\ UNCHANGED << cfgvars, slot, off_start, try_length, nb_retry, sent_blocks,
                        wire, wire_count, expvars >>

\* ------------------------------------------------------------------------
\* erase, test, list and reset: one transceive each
\* ------------------------------------------------------------------------
OpRequest ==
    [valid |-> TRUE,
     hdr |-> Hdr(ReqOp(op), ReqGroup(op), seq_id),
     off |-> 0, has_len |-> FALSE, len |-> 0, has_sha |-> FALSE,
     data |-> << >>,
     frame_len |-> NMP_HDR_LEN + ReqBodyLen(op)]

\* the transport rejects the request: the error is returned as it is
OpTooLarge ==
    /\ pc = "begin" /\ op # Upload
    /\ MtuCheck(OpRequest.frame_len) > 0
    /\ seq_id' = (IF tr = Ble THEN BleSeqAfter(seq_id) ELSE SeqAfterReject(seq_id))
    /\ rej_seq' = OpRequest.hdr.seq
    /\ Finish(Res(ErrTooLargeChunk))
    /\ last' = "reject"
    /\ UNCHANGED << cfgvars, slot, upvars, wire, rsp, wire_count, returned, devvars,
                    expvars, lost >>

OpSend ==
    /\ pc = "begin" /\ op # Upload
    /\ wire_count < MaxSends
    /\ MtuCheck(OpRequest.frame_len) = 0
    /\ wire' = OpRequest
    /\ wire_count' = wire_count + 1
    /\ pc' = "await"
    /\ last' = "send"
    /\ UNCHANGED << cfgvars, slot, seq_id, result, upvars, rsp, returned, rej_seq,
                    devvars, expvars, lost >>

\* reset borrows its transport: the caller may call it again
ResetAgain ==
    /\ pc = "done" /\ op = Reset
    /\ result.kind # Panic
    /\ wire_count < MaxSends
    /\ pc' = "begin"
    /\ result' = Res(None)
    /\ last' = "again"
    /\ UNCHANGED << cfgvars, slot, seq_id, upvars, wire, rsp, wire_count, returned,
                    rej_seq, devvars, expvars, lost >>

\* the result of erase and test for an accepted reply
EraseTestResult(r) ==
    IF get_rc(r) # NoRc /\ get_rc(r) # 0
    THEN DeviceError(<< 0, get_rc(r) >>) ELSE Res(Ok)

\* the result of reset for a reply that passed its two header checks
ResetResult(r) == IF RcNonZero(r) THEN DeviceError(r.rc.v) ELSE Res(Ok)

\* what the operation returns for a reply that transceive parsed
OpResult(r) ==
    IF op = Reset THEN
        IF r.hdr.seq # wire.hdr.seq THEN Res(ErrWrongSequence)
        ELSE IF r.hdr.op # WriteRsp \/ r.hdr.group # GroupDefault
        THEN Res(ErrWrongResponseTypes)
        ELSE ResetResult(r)
    ELSE IF ~check_answer(wire.hdr, r.hdr) THEN Res(ErrWrongAnswerTypes)
    ELSE IF op = List THEN
        (IF r.images THEN Res(Ok) ELSE Res(ErrUnexpectedAnswer))
    ELSE EraseTestResult(r)

OpOnReply(r) ==
    /\ seq_id' = SeqAfterReturn
    /\ returned' = returned + 1
    /\ rej_seq' = -1
    /\ rsp' = [r EXCEPT !.valid = TRUE, !.at = 0]
    /\ Finish(OpResult(r))
    /\ last' = "reply"
    /\ UNCHANGED << cfgvars, slot, upvars, wire, wire_count, devvars, expvars, lost >>

\* a faulty variant: after an error the operation starts over and sends its
\* request again
Mut_OnError(e) ==
    /\ seq_id' = SeqAfterReturn
    /\ returned' = returned + 1
    /\ rej_seq' = -1
    /\ pc' = "begin"
    /\ last' = "error"
    /\ UNCHANGED << cfgvars, slot, result, upvars, wire, rsp, wire_count, devvars,
                    expvars, lost >>

\* transceive returns an error other than TooLargeChunk to erase, test,
\* list or reset, or an error other than a timeout to upload
OnError(e) ==
    /\ seq_id' = SeqAfterReturn
    /\ returned' = returned + 1
    /\ rej_seq' = -1
    /\ Finish(Res(e))
    /\ last' = "error"
    /\ UNCHANGED << cfgvars, slot, upvars, wire, rsp, wire_count, devvars, expvars,
                    lost >>

\* ------------------------------------------------------------------------
\* The link, seen from the client: any reply, a timeout, an error, or a
\* panic of the reception procedure
\* ------------------------------------------------------------------------
ErrBleTimeout == "timeout waiting for response"
TransportErrors == {ErrIo, ErrRead, ErrBase64, ErrLength, ErrChecksum, ErrParse}

ExpectedRsp(w) == Hdr(IF w.hdr.op = Read THEN ReadRsp ELSE WriteRsp,
                      w.hdr.group, w.hdr.seq)
Headers(w) ==
    { Hdr(o, g, q) : o \in NmpOps, g \in NmpGroups,
                     q \in {w.hdr.seq, WrappingInc(w.hdr.seq)} }

RcValues == {RcAbsent, RcText, RcInt(0, 0), RcInt(0, 1), RcInt(1, 0)}
OffValues == {OffAbsent, OffText} \cup { OffInt(n) : n \in -1..(Len(data) + 1) }

Reply(h, rc_, off_, img) ==
    [valid |-> TRUE, hdr |-> h, rc |-> rc_, off |-> off_, images |-> img,
     at |-> 0]

\* every body under the expected header, two bodies under every other one
Replies(w) ==
    IF op = Upload THEN
        { Reply(ExpectedRsp(w), c, o, FALSE) : c \in RcValues, o \in OffValues }
        \cup { Reply(h, c, OffInt(w.off + 1), FALSE) :
                   h \in Headers(w), c \in {RcInt(0, 0), RcInt(0, 1)} }
    ELSE IF op = List THEN
        { Reply(h, c, OffAbsent, i) :
              h \in Headers(w), c \in {RcAbsent, RcInt(0, 1)}, i \in BOOLEAN }
    ELSE
        { Reply(h, c, OffAbsent, FALSE) : h \in Headers(w), c \in RcValues }

RecvReply ==
    /\ pc = "await"
    /\ \E r \in Replies(wire) :
         IF op = Upload
         THEN UploadOnReply(r) /\ UNCHANGED << devvars, lost >>
         ELSE OpOnReply(r)

RecvTimeout ==
    /\ pc = "await"
    /\ IF op = Upload
       THEN UploadOnTimeout /\ UNCHANGED << devvars, lost >>
       ELSE OnError(IF tr = Ble THEN ErrBleTimeout ELSE ErrTimeout)

RecvError ==
    /\ pc = "await"
    /\ \E e \in TransportErrors : OnError(e)

\* serial_transceive panics on a reply too short to hold a length and a CRC
RecvPanic ==
    /\ pc = "await" /\ tr = Serial
    /\ Finish(Res(Panic))
    /\ last' = "panic"
    /\ UNCHANGED << cfgvars, slot, seq_id, upvars, wire, rsp, wire_count, returned,
                    rej_seq, devvars, expvars, lost >>

\* ------------------------------------------------------------------------
\* read_response of the BLE transport: notifications are appended to the
\* response until it holds a header and the payload the header announces.
\* The stream delivers a notification, an error, nothing within the timeout,
\* or its end.
\* ------------------------------------------------------------------------
MaxBleBuf == 12
BleBytes == {0, 2}
Notifications ==
    { << a >> : a \in BleBytes }
    \cup { << a, b, c, d >> : a \in BleBytes, b \in BleBytes,
                              c \in BleBytes, d \in BleBytes }

\* u16::from_be_bytes([response[2], response[3]])
PayloadLen(response) == response[3] * 256 + response[4]

WholeResponse(response) ==
    /\ Len(response) >= NMP_HDR_LEN
    /\ Len(response) >= NMP_HDR_LEN + PayloadLen(response)

BleIdle == b_pc = "idle" /\ b_buf = << >> /\ b_res = None

BleNotify ==
    /\ b_pc = "reading"
    /\ \E value \in Notifications :
         /\ Len(b_buf) + Len(value) <= MaxBleBuf
         /\ b_buf' = b_buf \o value
         /\ IF WholeResponse(b_buf \o value)
            THEN b_pc' = "returned" /\ b_res' = RecvOk
            ELSE UNCHANGED << b_pc, b_res >>

\* the stream delivers Some(Err(..)): value? returns the error
BleNotifyError ==
    /\ b_pc = "reading"
    /\ b_pc' = "returned" /\ b_res' = ErrIo
    /\ UNCHANGED b_buf

\* tokio::time::timeout elapses
BleReadTimeout ==
    /\ b_pc = "reading"
    /\ b_pc' = "returned" /\ b_res' = ErrBleTimeout
    /\ UNCHANGED b_buf

\* the stream delivers None: break, then Ok(response)
BleStreamEnd ==
    /\ b_pc = "reading"
    /\ b_pc' = "returned" /\ b_res' = RecvOk
    /\ UNCHANGED b_buf

Init == ClientInit /\ CodecIdle /\ BleIdle

Next ==
    \/ UploadBegin /\ UNCHANGED << cvars, bvars >>
    \/ ChunkBegin /\ UNCHANGED << cvars, bvars >>
    \/ UploadBuildPanic /\ UNCHANGED << cvars, bvars >>
    \/ (\E wrap \in BOOLEAN : UploadTooLarge(wrap)) /\ UNCHANGED << cvars, bvars >>
    \/ UploadSend /\ UNCHANGED << cvars, bvars >>
    \/ OpTooLarge /\ UNCHANGED << cvars, bvars >>
    \/ OpSend /\ UNCHANGED << cvars, bvars >>
    \/ ResetAgain /\ UNCHANGED << cvars, bvars >>
    \/ RecvReply /\ UNCHANGED << cvars, bvars >>
    \/ RecvTimeout /\ UNCHANGED << cvars, bvars >>
    \/ RecvError /\ UNCHANGED << cvars, bvars >>
    \/ RecvPanic /\ UNCHANGED << cvars, bvars >>

Spec == Init /\ [][Next]_vars

\* ------------------------------------------------------------------------
\* The retry experiment: the same upload is run twice against a device that
\* follows the protocol, first on a link that loses nothing, then on a link
\* that loses one request or one response of every chunk.
\* ------------------------------------------------------------------------
RetryRetries == {1, 2}

\* the device: an upload request at offset 0 starts the image afresh, one at
\* the expected offset is appended, any other one is answered and ignored
DevMemAfter(w) ==
    IF w.off = 0 THEN w.data
    ELSE IF w.off = dev_off THEN dev_mem \o w.data
    ELSE dev_mem
DevOffAfter(w) == Len(DevMemAfter(w))
DevReply(w) ==
    Reply(Hdr(WriteRsp, w.hdr.group, w.hdr.seq), RcInt(0, 0),
          OffInt(DevOffAfter(w)), FALSE)

DevHandle ==
    /\ dev_mem' = DevMemAfter(wire)
    /\ dev_off' = DevOffAfter(wire)

MayLose == phase = "lossy" /\ ~lost

DevAnswer ==
    /\ pc = "await" /\ ~MayLose
    /\ DevHandle
    /\ UploadOnReply(DevReply(wire))
    /\ UNCHANGED lost

LoseRequest ==
    /\ pc = "await" /\ MayLose
    /\ UploadOnTimeout
    /\ lost' = TRUE
    /\ UNCHANGED devvars

LoseResponse ==
    /\ pc = "await" /\ MayLose
    /\ DevHandle
    /\ UploadOnTimeout
    /\ lost' = TRUE

\* the first run is over: keep its outcome, erase the device, run again
Rerun ==
    /\ pc = "done" /\ phase = "noloss"
    /\ ref' = [result |-> result, off |-> dev_off, mem |-> dev_mem]
    /\ phase' = "lossy"
    /\ seq_id' = seq0
    /\ pc' = "begin"
    /\ result' = Res(None)
    /\ off' = 0 /\ off_start' = 0 /\ try_length' = 0 /\ nb_retry' = 0
    /\ sent_blocks' = 0 /\ confirmed_blocks' = 0
    /\ wire' = NoWire
    /\ rsp' = NoRsp
    /\ wire_count' = 0
    /\ returned' = 0
    /\ rej_seq' = -1
    /\ last' = "init"
    /\ dev_off' = 0 /\ dev_mem' = << >>
    /\ lost' = FALSE
    /\ slot' = specs.slot
    /\ UNCHANGED cfgvars

RetryInit ==
    /\ op = Upload /\ tr = Serial
    /\ filename = PlainName
    /\ data \in { File(n) : n \in 0..MaxFile }
    /\ specs \in [mtu : Mtus, linelength : UploadLineLengths,
                  nb_retry : RetryRetries, slot : Slots]
    /\ seq0 \in SeqStarts
    /\ Fresh(seq0)
    /\ phase = "noloss" /\ ref = NoRef
    /\ CodecIdle /\ BleIdle

RetryNext ==
    \/ UploadBegin /\ UNCHANGED << cvars, bvars >>
    \/ ChunkBegin /\ UNCHANGED << cvars, bvars >>
    \/ (\E wrap \in BOOLEAN : UploadTooLarge(wrap)) /\ UNCHANGED << cvars, bvars >>
    \/ UploadSend /\ UNCHANGED << cvars, bvars >>
    \/ DevAnswer /\ UNCHANGED << cvars, bvars >>
    \/ LoseRequest /\ UNCHANGED << cvars, bvars >>
    \/ LoseResponse /\ UNCHANGED << cvars, bvars >>
    \/ Rerun /\ UNCHANGED << cvars, bvars >>

SpecRetry == RetryInit /\ [][RetryNext]_vars

\* ------------------------------------------------------------------------
\* Uploads of files of various names to various slots
\* ------------------------------------------------------------------------
SlotMtus == {110, 200}

SlotInit ==
    /\ op = Upload /\ tr = Serial
    /\ filename \in FileNames
    /\ data = File(MaxFile)
    /\ specs \in [mtu : SlotMtus, linelength : UploadLineLengths,
                  nb_retry : {0}, slot : GivenSlots]
    /\ seq0 = 0
    /\ Fresh(seq0)
    /\ phase = "free" /\ ref = NoRef
    /\ CodecIdle /\ BleIdle

SlotNext ==
    \/ UploadBegin /\ UNCHANGED << cvars, bvars >>
    \/ ChunkBegin /\ UNCHANGED << cvars, bvars >>
    \/ (\E wrap \in BOOLEAN : UploadTooLarge(wrap)) /\ UNCHANGED << cvars, bvars >>
    \/ UploadSend /\ UNCHANGED << cvars, bvars >>
    \/ RecvReply /\ UNCHANGED << cvars, bvars >>
    \/ RecvTimeout /\ UNCHANGED << cvars, bvars >>

SpecSlot == SlotInit /\ [][SlotNext]_vars

\* ------------------------------------------------------------------------
\* The serial link on its own
\* ------------------------------------------------------------------------
SerialInit ==
    /\ CodecInit /\ BleIdle
    /\ op = None /\ tr = Serial /\ data = << >> /\ filename = << >>
    /\ specs = [mtu |-> 0, linelength |-> 0, nb_retry |-> 0, slot |-> 0]
    /\ seq0 = 0
    /\ Fresh(0)
    /\ phase = "free" /\ ref = NoRef

SerialNext ==
    \/ CodecEncode /\ UNCHANGED << svars, bvars >>
    \/ CodecTamper /\ UNCHANGED << svars, bvars >>
    \/ CodecDevice /\ UNCHANGED << svars, bvars >>
    \/ CodecReceive /\ UNCHANGED << svars, bvars >>

SpecSerial == SerialInit /\ [][SerialNext]_vars

\* ------------------------------------------------------------------------
\* The BLE reception on its own
\* ------------------------------------------------------------------------
BleInit ==
    /\ b_pc = "reading" /\ b_buf = << >> /\ b_res = None
    /\ CodecIdle
    /\ op = None /\ tr = Ble /\ data = << >> /\ filename = << >>
    /\ specs = [mtu |-> 0, linelength |-> 0, nb_retry |-> 0, slot |-> 0]
    /\ seq0 = 0
    /\ Fresh(0)
    /\ phase = "free" /\ ref = NoRef

BleNext ==
    \/ BleNotify /\ UNCHANGED << svars, cvars >>
    \/ BleNotifyError /\ UNCHANGED << svars, cvars >>
    \/ BleReadTimeout /\ UNCHANGED << svars, cvars >>
    \/ BleStreamEnd /\ UNCHANGED << svars, cvars >>

SpecBle == BleInit /\ [][BleNext]_vars

\* ========================================================================
\* Properties
\* ========================================================================

\* comparison of two usize values, a negative number standing for 2^64 + v
ULt(a, b) ==
    IF (a >= 0) = (b >= 0) THEN a < b ELSE b < 0

\* ---- C1 ----------------------------------------------------------------
\* C1: on SmpTransport, after N transceive calls that returned anything but
\* TooLargeChunk (successes, timeouts, I/O, framing and parse errors alike)
\* seq_id is its initial value plus N modulo 256, and the request on the
\* wire, the (N+1)-th such call, carries the initial value plus N.
C1_SeqAdvancesPerAttempt ==
    tr = Serial =>
        /\ seq_id = (seq0 + returned) % 256
        /\ (pc = "await" => wire.hdr.seq = (seq0 + returned) % 256)

\* three calls have returned, one of them a timeout, and the counter wrapped
C1_Witness ==
    /\ tr = Serial /\ op = Upload
    /\ returned = 3 /\ confirmed_blocks >= 1 /\ last = "timeout"
    /\ seq0 = 254 /\ seq_id = 1

\* ---- C2 ----------------------------------------------------------------
\* C2: a step that rejects a request with TooLargeChunk writes nothing to
\* the wire and leaves seq_id alone, and the next request that reaches the
\* wire carries the seq of the rejected one.
C2_RejectedLeavesNoTrace ==
    /\ [][last' = "reject" =>
            (wire_count' = wire_count /\ wire' = wire /\ seq_id' = seq_id)]_vars
    /\ []((pc = "await" /\ rej_seq # -1) => wire.hdr.seq = rej_seq)

\* a request was rejected, shrunk and then sent with the same seq
C2_Witness ==
    /\ op = Upload /\ pc = "await" /\ rej_seq = seq0
    /\ wire.hdr.seq = seq0 /\ wire_count = 1 /\ Len(wire.data) < Len(data)

C4_ShrinkStrictlyDecreases ==
    [][(op = Upload /\ pc = "build" /\ last' = "reject") =>
          \/ (pc' = "done" /\ result'.kind = ErrMtuTooSmall)
          \/ (pc' = "build" /\ ULt(try_length', try_length))]_vars

\* ---- C5 ----------------------------------------------------------------
\* C5: when the reply accepted for the chunk sent at offset j carries
\* off = k with j < k, the request on the wire next carries off = k.
C5_OffsetAuthority ==
    (op = Upload /\ pc = "await" /\ rsp.valid /\ rsp.off.t = Integer
       /\ rsp.at < rsp.off.v) => wire.off = rsp.off.v

\* the device acknowledged 3 bytes of a chunk of 7 and the next request
\* starts at 3
C5_Witness ==
    /\ op = Upload /\ pc = "await" /\ specs.mtu = 200 /\ Len(data) = 7
    /\ rsp.valid /\ rsp.at = 0 /\ rsp.off = OffInt(3) /\ wire.off = 3

\* ---- C6 ----------------------------------------------------------------
\* C6: every upload request handed to the wire carries len and sha exactly
\* when its off is 0, and its len is the length of the file.
C6_FirstChunkMetadata ==
    (op = Upload /\ wire.valid) =>
        /\ wire.has_len <=> wire.off = 0
        /\ wire.has_sha <=> wire.off = 0
        /\ wire.has_len => wire.len = Len(data)

\* a later chunk, sent again after a timeout, without len and sha
C6_Witness ==
    /\ op = Upload /\ pc = "await" /\ wire.off > 0 /\ nb_retry < specs.nb_retry
    /\ ~wire.has_len /\ ~wire.has_sha

\* ---- C7 ----------------------------------------------------------------
\* the base64 text of a frame, and the place of a wire byte in it: its
\* 0-based index in the text, or -1 for a marker byte or a newline
FrameText(req) == Base64Encode(Framed(req))

TextIndex(linelength, pos) ==
    LET per == linelength - MarkerOverhead
        o == (pos - 1) % (per + 3)
    IN  IF o < 2 \/ o = per + 2 THEN -1
        ELSE ((pos - 1) \div (per + 3)) * per + (o - 2)

SingleLine == Len(FrameText(c_req)) <= c_ll - MarkerOverhead

\* C7, the part of it that holds: for a line length in [32, 4096] that is a
\* multiple of 4, or when the encoding fits on one line, the reception
\* procedure run on the bytes of encode_request(linelength, R) returns
\* exactly R.
C7_RoundTripAlignedLines ==
    (c_pc = "received" /\ c_flip = << >> /\ c_ll >= 32 /\ c_ll <= 4096
       /\ (c_ll % 4 = 0 \/ SingleLine))
    => c_res = [tag |-> RecvOk, data |-> c_req]

\* a frame of 18 bytes sent on two lines of line length 32 and read back
C7_Witness ==
    /\ c_pc = "received" /\ c_flip = << >> /\ c_ll = 32
    /\ Len(c_req) = 18 /\ ~SingleLine
    /\ c_res = [tag |-> RecvOk, data |-> c_req]

\* C7 as stated: the round trip holds for every line length in [32, 4096].
C7_RoundTripEveryLineLength ==
    (c_pc = "received" /\ c_flip = << >> /\ c_ll >= 32 /\ c_ll <= 4096)
    => c_res = [tag |-> RecvOk, data |-> c_req]

\* ---- C8 ----------------------------------------------------------------
\* the text after the flip, when the flipped byte is a character of it
FlippedText ==
    LET k == TextIndex(c_ll, c_flip[1])
    IN  [FrameText(c_req) EXCEPT ![k + 1] = c_wire[c_flip[1]]]

\* the first three characters of the text carry the length prefix
LengthChars == CeilDiv(2 * 8, 6)

FlipInText == c_flip[1] < Len(c_wire) /\ TextIndex(c_ll, c_flip[1]) >= 0

\* the flipped byte is a character of the text that carries frame bits
\* behind the length prefix: not one of the first three, not padding
FlipInBody ==
    /\ FlipInText
    /\ TextIndex(c_ll, c_flip[1]) >= LengthChars
    /\ FrameText(c_req)[TextIndex(c_ll, c_flip[1]) + 1] # PadChar

\* what the reception returns for the same response without the flip
Untampered == serial_receive(encode_request(c_ll, c_req))

Accepts(rq, rs) ==
    /\ rs.seq = rq.seq
    /\ rs.group = rq.group
    /\ \/ (rq.op = Read /\ rs.op = ReadRsp)
       \/ (rq.op = Write /\ rs.op = WriteRsp)

EnvelopeErrors == {ErrWrongAnswerTypes, ErrWrongResponseTypes, ErrWrongSequence}

\* C9 (as amended): check_answer accepts exactly the pairs the claim names,
\* whatever the op of the request; a reply that is not accepted ends erase,
\* test, list and upload with WrongAnswerTypes and reset with WrongSequence
\* (seq differs) or WrongAnswerTypes (op or group differs) without its body
\* being used: no DeviceError, no offset update; an accepted reply never
\* ends with one of these errors.
C9_EnvelopeValidation ==
    (last = "reply" /\ rsp.valid) =>
        /\ \A o \in NmpOps :
             check_answer([wire.hdr EXCEPT !.op = o], rsp.hdr)
               <=> Accepts([wire.hdr EXCEPT !.op = o], rsp.hdr)
        /\ ~Accepts(wire.hdr, rsp.hdr) =>
             /\ pc = "done"
             /\ result.kind =
                  (IF op # Reset THEN ErrWrongAnswerTypes
                   ELSE IF rsp.hdr.seq # wire.hdr.seq THEN ErrWrongSequence
                   ELSE ErrWrongResponseTypes)
             /\ op = Upload => off = rsp.at
        /\ Accepts(wire.hdr, rsp.hdr) => result.kind \notin EnvelopeErrors

\* erase got a reply of the wrong group with rc = 1 and failed on the group
C9_Witness ==
    /\ last = "reply" /\ op = Erase
    /\ rsp.hdr.seq = wire.hdr.seq /\ rsp.hdr.op = WriteRsp
    /\ rsp.hdr.group = GroupDefault /\ rsp.rc = RcInt(0, 1)
    /\ result = Res(ErrWrongAnswerTypes)

\* C9 as stated: every operation fails with WrongAnswerTypes ("wrong answer
\* types", or reset's "wrong response types") when the pair is not accepted.
C9_AlwaysWrongAnswerTypes ==
    (last = "reply" /\ rsp.valid /\ ~Accepts(wire.hdr, rsp.hdr)) =>
        result.kind \in {ErrWrongAnswerTypes, ErrWrongResponseTypes}

\* ---- C10 ---------------------------------------------------------------
\* the rc of the last reply is an integer that the operation reads as not 0:
\* erase and test read its low 32 bits, reset and upload the integer itself
RcReadAsNonZero ==
    /\ rsp.rc.t = Integer
    /\ IF op \in {Erase, Test} THEN rsp.rc.v[2] # 0 ELSE rsp.rc.v # << 0, 0 >>

C11_TimeoutRetry ==
    /\ [][(op = Upload /\ last' = "timeout") =>
            IF nb_retry > 0
            THEN /\ nb_retry' = nb_retry - 1
                 /\ sent_blocks' = sent_blocks - 1
                 /\ off' = off /\ try_length' = try_length
                 /\ pc' = "build"
            ELSE /\ pc' = "done" /\ result' = Res(ErrTimeout)
                 /\ nb_retry' = nb_retry]_vars
    /\ [][(op = Upload /\ last = "timeout" /\ last' = "send") =>
            /\ wire'.off = wire.off
            /\ wire'.data = wire.data]_vars
    /\ [][(op = Upload /\ last' = "chunk") => nb_retry' = specs.nb_retry]_vars
    /\ [](op = Upload => (nb_retry >= 0 /\ nb_retry <= specs.nb_retry))

\* the first and the second chunk each timed out once and were sent again
C11_Witness ==
    /\ op = Upload /\ pc = "await" /\ last = "send"
    /\ specs.nb_retry = 1 /\ nb_retry = 0
    /\ wire_count = 4 /\ returned = 3
    /\ sent_blocks = 2 /\ confirmed_blocks = 1
    /\ wire.off > 0

\* ---- C12 ---------------------------------------------------------------
\* the chunk length and the reduce value of the request upload builds next
BuildLength == ChunkLength(off, try_length, Len(data))
BuildReduce == MtuCheck(UploadRequest(off, BuildLength).frame_len)

C13_FrameWithinMtuIsAccepted ==
    (c_pc = "onwire" /\ c_flip = << >> /\ c_ll >= 32) =>
        \A mtu \in Mtus :
            Len(c_req) <= SerialMtu(mtu) =>
                /\ Len(c_wire) <= mtu
                /\ SerialMtuCheck(mtu, c_ll, Len(c_req)) = 0

\* the check of transceive_raw is the one on the encoded length
C13_CheckIsOnEncodedLength ==
    c_pc = "onwire" =>
        \A mtu \in Mtus :
            SerialMtuCheck(mtu, c_ll, Len(c_req)) =
                (IF Len(c_wire) > mtu
                 THEN ((Len(c_wire) - mtu) * 3) \div 4 + 3 ELSE 0)

\* ---- C14 ---------------------------------------------------------------
\* C14 as stated: two requests that BluetoothTransport::transceive puts on
\* the wire one after the other carry different seq values.
C14_BleSeqDistinct ==
    [][(tr = Ble /\ wire.valid /\ last' = "send") =>
          wire'.hdr.seq # wire.hdr.seq]_vars

\* ---- C15 ---------------------------------------------------------------
\* C15 as stated: read_response returns success with buffer buf only when
\* |buf| >= 8 and |buf| >= 8 + payload_len, payload_len being the big-endian
\* u16 at offset 2 of buf; a stream that ends before that makes it fail.
C15_OnlyCompleteResponses ==
    (b_pc = "returned" /\ b_res = RecvOk) =>
        /\ Len(b_buf) >= 8
        /\ Len(b_buf) >= 8 + (b_buf[3] * 256 + b_buf[4])

\* ---- C16 ---------------------------------------------------------------
\* the lines of a byte stream: the bytes before each 0x0A; a rest without
\* 0x0A counts as one more line, marked by a trailing 0x0A it does not have
RECURSIVE SplitLines(_, _, _)
SplitLines(stream, pos, cur) ==
    IF pos > Len(stream) THEN (IF cur = << >> THEN << >> ELSE << cur \o << 10 >> >>)
    ELSE IF stream[pos] = 10 THEN << cur >> \o SplitLines(stream, pos + 1, << >>)
    ELSE SplitLines(stream, pos + 1, Append(cur, stream[pos]))

RECURSIVE Concat(_, _)
Concat(lines, i) ==
    IF i > Len(lines) THEN << >>
    ELSE SubSeq(lines[i], 3, Len(lines[i])) \o Concat(lines, i + 1)

\* the line format: a non-empty sequence of lines, each ended by 0x0A; the
\* first starts with 0x06 0x09 and every later one with 0x04 0x14; each
\* carries between 1 and linelength - 4 base64 bytes; and the payloads in
\* order are the padded standard base64 of len_be16(|R| + 2), R,
\* CRC16-XMODEM(R) big-endian
WellFormedLines ==
    LET lines == SplitLines(c_wire, 1, << >>)
    IN  /\ Len(lines) >= 1
        /\ c_wire[Len(c_wire)] = 10
        /\ \A i \in 1..Len(lines) :
             /\ Len(lines[i]) >= 3
             /\ Len(lines[i]) - 2 <= c_ll - 4
             /\ SubSeq(lines[i], 1, 2) =
                  (IF i = 1 THEN << 6, 9 >> ELSE << 4, 20 >>)
             /\ \A j \in 3..Len(lines[i]) : B64Index(lines[i][j]) >= 0
                                            \/ lines[i][j] = 61
        /\ Concat(lines, 1) =
             Base64Encode(<< (Len(c_req) + 2) \div 256, (Len(c_req) + 2) % 256 >>
                          \o c_req
                          \o << Crc16(c_req) \div 256, Crc16(c_req) % 256 >>)

\* C16: for a line length of at least 5 encode_request returns output in the
\* line format above; for a line length of 4, where a line has room for no
\* base64 byte, it produces no output at all.
C16_LineFormat ==
    /\ (c_pc = "onwire" /\ c_flip = << >>) => (c_ll >= 5 /\ WellFormedLines)
    /\ (c_pc = "looping") => (c_ll = 4 /\ c_wire = << >>)
    /\ c_ll >= 5 => c_pc # "looping"

\* C16 as stated, for every line length: once encode_request has been called
\* there is output, and it is in the line format.
C16_EveryLineLength ==
    (c_pc \in {"onwire", "received", "looping"} /\ c_flip = << >>) =>
        (c_pc \in {"onwire", "received"} /\ WellFormedLines)

\* a request of 18 bytes encoded on four lines of 8 base64 bytes
C16_Witness ==
    /\ c_pc = "onwire" /\ c_flip = << >> /\ c_ll = 12 /\ Len(c_req) = 18
    /\ Len(SplitLines(c_wire, 1, << >>)) = 4
    /\ SubSeq(c_wire, 12, 13) = << 4, 20 >>

\* ---- C17 ---------------------------------------------------------------
\* the name holds the pattern at some position, each letter in either case
HoldsAnyCase(name, pattern) ==
    \E i \in 1..Len(name) :
        /\ i + Len(pattern) - 1 <= Len(name)
        /\ \A k \in 1..Len(pattern) :
             \/ name[i + k - 1] = pattern[k]
             \/ pattern[k] \in 97..122 /\ name[i + k - 1] = pattern[k] - 32

\* C17: every request of an upload carries image = 3 when the file name
\* holds slot3 in any letter case, else image = 1 when it holds slot1 in any
\* letter case, else the slot the caller gave; and the value never changes
\* from one request of the upload to the next.
C17_SlotOverride ==
    /\ [](wire.valid =>
            wire.image = (IF HoldsAnyCase(filename, Slot3Pattern) THEN 3
                          ELSE IF HoldsAnyCase(filename, Slot1Pattern) THEN 1
                          ELSE specs.slot))
    /\ [][(wire.valid /\ wire'.valid) => wire'.image = wire.image]_vars

\* a later request of the upload of SLOT3.b, given slot 0 or 2, carries 3
C17_Witness ==
    /\ wire.valid /\ wire.off > 0 /\ wire_count >= 2
    /\ filename[1] = 83
    /\ HoldsAnyCase(filename, Slot3Pattern)
    /\ ~ HoldsAnyCase(filename, Slot1Pattern)
    /\ specs.slot # 3
    /\ wire.image = 3

\* C17 as stated: a name holding slot1 gives image = 1, a name holding slot3
\* gives image = 3, any other name the caller's slot.
C17_SlotPerPattern ==
    wire.valid =>
        /\ HoldsAnyCase(filename, Slot1Pattern) => wire.image = 1
        /\ HoldsAnyCase(filename, Slot3Pattern) => wire.image = 3
        /\ (~ HoldsAnyCase(filename, Slot1Pattern)
              /\ ~ HoldsAnyCase(filename, Slot3Pattern)) => wire.image = specs.slot

\* ---- C18 ---------------------------------------------------------------
\* a reply to an upload request that passed check_answer and carries rc = 0
GoodUploadReply ==
    /\ op = Upload /\ last = "reply" /\ rsp.valid
    /\ check_answer(wire.hdr, rsp.hdr)
    /\ rsp.rc = RcInt(0, 0)

\* C18: after a good reply whose off is equal to the offset the chunk was
\* sent at, smaller than it, or absent, the upload has failed with
\* NoProgress and sends no further request.
C18_NoProgress ==
    (GoodUploadReply
       /\ (rsp.off.t # Integer \/ (rsp.off.v >= 0 /\ rsp.off.v <= rsp.at)))
    => (pc = "done" /\ result = Res(ErrNoProgress))

\* the part of C18 the code implements: off equal to the chunk's or absent
C18_EqualOrAbsentFails ==
    (GoodUploadReply /\ (rsp.off.t # Integer \/ rsp.off.v = rsp.at))
    => (pc = "done" /\ result = Res(ErrNoProgress))

\* ---- C19 ---------------------------------------------------------------
\* the largest MTU of the model: no request of an upload is rejected under it
RoomyMtu == \A m \in Mtus : m <= specs.mtu

\* C19 as stated: against a device that follows the protocol, with at most
\* nb_retry timeouts per chunk and an MTU that fits every request, an upload
\* that has ended has ended with success, whatever the length of the file.
C19_UploadSucceeds ==
    (op = Upload /\ pc = "done" /\ RoomyMtu) => result.kind = Ok

\* the same for files of at least one byte, which holds
C19_NonEmptyUploadSucceeds ==
    (op = Upload /\ pc = "done" /\ RoomyMtu /\ Len(data) >= 1) =>
        (result.kind = Ok /\ dev_mem = data)

\* ---- C20 ---------------------------------------------------------------
\* C20 as stated: once the first chunk has started, try_length never grows.
\* Starting a later chunk leaves it alone, so the request built next carries
\* no more data bytes than the try_length the chunk before ended with.
C20_TryLengthNeverGrows ==
    [][(op = Upload /\ pc = "chunk" /\ pc' = "build" /\ last # "begin"
          /\ try_length >= 0)
       => /\ try_length' <= try_length
          /\ ChunkLength(off', try_length', Len(data)) <= try_length]_vars

\* what the code does instead: every chunk starts from specs.mtu again
C20_EveryChunkStartsFromMtu ==
    [][(op = Upload /\ pc = "chunk" /\ pc' = "build")
       => try_length' = specs.mtu]_vars

\* ---- C21 ---------------------------------------------------------------
\* min(try_length, remaining) on usize, a negative try_length being a
\* wrapped one
UMin(tl, remaining) == IF tl < 0 \/ tl > remaining THEN remaining ELSE tl

\* C21: whatever the device replied, a request that upload builds (sent or
\* rejected by the transport) starts at an offset within 0..file length, and
\* a request sent carries exactly the file bytes from that offset on,
\* min(try_length, file length - off) of them; from an offset outside the
\* file nothing is built: upload panics.
C21_ChunkBounds ==
    /\ [][(op = Upload /\ pc = "build" /\ last' \in {"send", "reject"})
            => (off >= 0 /\ off <= Len(data))]_vars
    /\ [][(op = Upload /\ pc = "build" /\ last' = "send")
            => /\ wire'.off = off
               /\ Len(wire'.data) = UMin(try_length, Len(data) - off)
               /\ \A i \in 1..Len(wire'.data) : wire'.data[i] = data[off + i]]_vars
    /\ [][(op = Upload /\ pc = "build" /\ (off < 0 \/ off > Len(data)))
            => (pc' = "done" /\ result' = Res(Panic))]_vars
    /\ [](op = Upload /\ wire.valid =>
            /\ wire.off >= 0 /\ wire.off + Len(wire.data) <= Len(data)
            /\ wire.data = SubSeq(data, wire.off + 1, wire.off + Len(wire.data)))

\* a request built after the device set the offset back: sent from the
\* smaller offset, with the bytes of the file from there
C21_Witness ==
    /\ op = Upload /\ last = "send" /\ wire_count >= 2
    /\ rsp.valid /\ rsp.off.t = Integer
    /\ rsp.off.v >= 0 /\ rsp.off.v < rsp.at
    /\ wire.off = rsp.off.v /\ Len(wire.data) >= 2

\* an offset beyond the file was received and upload panicked on the slice
C21_PanicOutsideFile ==
    /\ op = Upload /\ last = "panic" /\ rsp.valid
    /\ rsp.off.t = Integer /\ rsp.off.v > Len(data) /\ off = rsp.off.v

\* ---- C22 ---------------------------------------------------------------
\* C22 as stated: an accepted reply whose rc, or for an upload whose off, is
\* present but not an integer makes the operation fail with
\* WrongAnswerTypes.
C22_NonIntegerKeyIsRejected ==
    (last = "reply" /\ rsp.valid /\ op \in {Erase, Test, Reset, Upload}
       /\ Accepts(wire.hdr, rsp.hdr)
       /\ (rsp.rc.t = NotInteger \/ (op = Upload /\ rsp.off.t = NotInteger)))
    => (pc = "done" /\ result = Res(ErrWrongAnswerTypes))

\* what the code does with such values: a non-integer rc is skipped, so that
\* erase, test and reset succeed; a non-integer off is skipped too, so that
\* the chunk ends as one without progress
C22_NonIntegerKeyIsSkipped ==
    (last = "reply" /\ rsp.valid /\ Accepts(wire.hdr, rsp.hdr)) =>
        /\ (op \in {Erase, Test, Reset} /\ rsp.rc.t = NotInteger)
             => result = Res(Ok)
        /\ (op = Upload /\ rsp.off.t = NotInteger /\ ~RcReadAsNonZero)
             => (off = rsp.at /\ result = Res(ErrNoProgress))
        /\ (op = Upload /\ rsp.rc.t = NotInteger /\ rsp.off.t = Integer
              /\ rsp.off.v > rsp.at /\ rsp.off.v < Len(data))
             => (pc = "chunk" /\ off = rsp.off.v)

\* ---- C23 ---------------------------------------------------------------
TimeoutKinds == {ErrTimeout, ErrBleTimeout}

\* C23: erase, test, list and reset hand one request to the transport per
\* call.  A request the transport rejects with TooLargeChunk is not written
\* and ends the operation with that error; a request written is written
\* once, and whatever comes back (a reply, a timeout, any other error) ends
\* the operation, a timeout with the timeout error.  A request of reset goes
\* out only at the start of a call of reset.
C23_NoRetryOutsideUpload ==
    /\ [](op \in {Erase, Test, List} => wire_count <= 1)
    /\ [][(op # Upload /\ pc = "await")
            => (pc' = "done" /\ wire' = wire /\ wire_count' = wire_count)]_vars
    /\ [][(op # Upload /\ pc = "await" /\ last' = "error" /\ rsp' = rsp)
            => result'.kind \in TimeoutKinds \cup TransportErrors]_vars
    /\ [][(op # Upload /\ last' = "reject")
            => /\ pc' = "done" /\ result' = Res(ErrTooLargeChunk)
               /\ wire' = wire /\ wire_count' = wire_count]_vars
    /\ [][(op # Upload /\ wire_count' # wire_count)
            => /\ wire_count' = wire_count + 1
               /\ pc = "begin" /\ last \in {"init", "again"}]_vars
    /\ [](op # Upload /\ pc = "done" /\ result.kind \in TimeoutKinds
            => last = "error")

\* test timed out: one request written, the operation over with the timeout
C23_Witness ==
    /\ op = Test /\ pc = "done" /\ last = "error"
    /\ result = Res(ErrTimeout) /\ wire_count = 1 /\ wire.valid

\* ---- C24 ---------------------------------------------------------------
\* C24 as stated: whatever stream the device sends, the reception ends with
\* the inner frame or with an error value, never with a panic.
C24_ReceptionIsTotal ==
    (c_pc = "answered") => c_res.tag # Panic

\* the streams on which the reception panics: those whose first line decodes
\* to fewer than 2 bytes (the length cannot be read), and those decoding to
\* 2 or 3 bytes whose declared length is the decoded length minus 2 (the
\* frame slice decoded[2..len - 2] ends before it starts)
C24_PanicOnShortBlock ==
    (c_pc = "answered" /\ NextNewline(c_wire, 1) # 0) =>
        LET dec == Base64Decode(SubSeq(c_wire, 3, Len(c_wire) - 1)).bytes
        IN  c_res.tag = Panic <=>
               \/ Len(dec) < 2
               \/ (Len(dec) < 4 /\ dec[1] * 256 + dec[2] = Len(dec) - 2)

\* ---- C25 ---------------------------------------------------------------
\* C25 as stated: a TooLargeChunk(reduce) with reduce <= try_length leaves
\* the upload running with a try_length that is not negative and is smaller
\* than the one the rejected request was built with.
C25_ShrinkNeverUnderflows ==
    [][(op = Upload /\ last' = "reject" /\ BuildReduce <= BuildLength) =>
          (pc' = "build" /\ try_length' >= 0 /\ try_length' < BuildLength)]_vars

\* what the code does: the subtraction underflows exactly when
\* reduce * 3 / 4 + 3 is larger than try_length, which reduce <= try_length
\* excludes only for a try_length of 9 or more
C25_UnderflowOnlyForShortChunks ==
    /\ [][(op = Upload /\ last' = "reject" /\ BuildReduce <= BuildLength) =>
            IF ShrinkBy(BuildReduce) <= BuildLength
            THEN pc' = "build" /\ try_length' = BuildLength - ShrinkBy(BuildReduce)
            ELSE \/ pc' = "done" /\ result' = Res(Panic)
                 \/ pc' = "build" /\ try_length' < 0]_vars
    /\ [](\A t \in 0..40 : \A r \in 0..t :
            ShrinkBy(r) > t => t <= 8)

\* ---- C26 ---------------------------------------------------------------
\* C26: throughout an upload confirmed_blocks <= sent_blocks <=
\* confirmed_blocks + 1 and sent_blocks >= 0; an attempt that timed out and is
\* retried, or that the transport rejected, leaves no block counted; and when
\* the upload reaches its completion point the two counters are equal, after
\* any number of timeouts and shrinks, so that no packet loss is reported.
C26_BlockAccounting ==
    /\ [](op = Upload =>
            /\ sent_blocks >= 0
            /\ confirmed_blocks <= sent_blocks
            /\ sent_blocks <= confirmed_blocks + 1)
    /\ [](op = Upload /\ pc = "build" => sent_blocks = confirmed_blocks)
    /\ [](op = Upload /\ pc = "done" /\ result.kind = Ok =>
            confirmed_blocks = sent_blocks)

\* an upload of 7 bytes completed in two blocks after a shrink of the first
\* request and one timeout: three frames written, two blocks counted
C26_Witness ==
    /\ op = Upload /\ pc = "done" /\ result.kind = Ok
    /\ specs.mtu = 110 /\ Len(data) = 7
    /\ wire_count = 3 /\ returned = 3
    /\ confirmed_blocks = 2 /\ sent_blocks = 2

====
